---- MODULE Spec2Model ----
(***************************************************************************)
(* SmartTableHybridServerSideComponent (src/example.ts): the debounced     *)
(* refetch pipeline (observeShortPollingData), the loading-row reconciler  *)
(* (observeShortPollingLoading) and the sort / value / clipboard overrides *)
(* installed by updateColumns.                                             *)
(***************************************************************************)
EXTENDS Integers, Sequences, FiniteSets, TLC

\* ------------------------------------------------------------------ bounds
MaxFetches == 2       \* getDataSource calls explored
MaxRows == 2          \* distinct real rows the data source can return
MaxView == 1          \* view states (filter / sort models) 0..MaxView
TickMs == 25          \* granularity of the passage of time, in ms
MaxStrLen == 2        \* length of the strings a real row's accessor returns

\* ------------------------------------------------------- program constants
LoadingRowCount == 25     \* Array(25)
DebounceMs == 100         \* debounceTime(100)
maxCharCode == 10000      \* const maxCharCode = 10000

NoTimer == -1

\* --------------------------------------------------------------- variables
VARIABLES
  rowSet,          \* the grid's row data, in insertion order
  viewState,       \* the grid's filter / sort model
  timer,           \* ms left on debounceTime's pending timer, or NoTimer
  subscribed,      \* fetches the switchMap inner subscription listens to
  inflight,        \* fetches the data source has not answered yet
  fetchCount,      \* number of getDataSource() calls so far
  fetchView,       \* view state read by the latest getDataSource() call
  fetchSawRows,    \* row data at the moment of the latest getDataSource() call
  published,       \* fetches whose chunk went into dataEmitSubject, in order
  lastEmit,        \* latest value pushed into dataEmitSubject; pending: pushed
                   \* within the debounce window that is still open
  lastDiscard,     \* latest fetch answered while nobody listened
  failures,        \* fetches whose error reached the pipeline
  dataErrored,     \* the observeShortPollingData subscription died on an error
  destroyed,       \* ngOnDestroy ran (untilDestroyed fired)
  destroyCalled,   \* gridApi['destroyCalled']
  lastLoading,     \* latest value emitted by loading$ ("none" before the first)
  emitParity,      \* flips on every loading$ emission
  emitLog,         \* loading$ values since the pipeline last wrote the row data (latest two)
  hadPlaceholders, \* placeholders were in the row data when the latest chunk arrived
  sinceLast,       \* ms since the latest trigger event, capped at DebounceMs
  burstPending,    \* trigger events happened since the latest getDataSource()
  fn               \* input / output of the pure column overrides

vars == <<rowSet, viewState, timer, subscribed, inflight, fetchCount, fetchView,
          fetchSawRows, published, lastEmit, lastDiscard, failures, dataErrored,
          destroyed, destroyCalled, lastLoading, emitParity, emitLog,
          hadPlaceholders, sinceLast, burstPending, fn>>

pipeVars == <<rowSet, viewState, timer, subscribed, inflight, fetchCount, fetchView,
          fetchSawRows, published, lastEmit, lastDiscard, failures, dataErrored,
          destroyed, destroyCalled, lastLoading, emitParity, emitLog,
          hadPlaceholders, sinceLast, burstPending>>

\* -------------------------------------------------------------------- rows
Min(a, b) ==
  IF a < b THEN a ELSE b

LoadingRow(i) ==
  [loading |-> TRUE, id |-> <<"loading", i>>,
   hierarchyStructure |-> << <<"loading", i>> >>]

loadingRows ==
  [i \in 1..LoadingRowCount |-> LoadingRow(i - 1)]

RealRow(n) ==
  [loading |-> FALSE, id |-> <<"row", n>>,
   hierarchyStructure |-> << <<"row", n>> >>]

\* chunks the data source can answer with: the first n real rows, unique ids
Chunks ==
  {[i \in 1..n |-> RealRow(i)] : n \in 0..MaxRows}

\* ---------------------------------------------------------- grid API model
\* gridApi.getRowNode(id)
GetRowNode(rows, id) ==
  \E i \in DOMAIN rows : rows[i].id = id

\* gridApi.setRowData(newRows)
SetRowData(rows, newRows) ==
  newRows

\* gridApi.applyTransaction({add, update: [], remove})
ApplyTransaction(rows, add, remove) ==
  LET removeIds == {remove[i].id : i \in DOMAIN remove}
      Kept(r) == r.id \notin removeIds
  IN SelectSeq(rows, Kept) \o add

IsLoadingRow(r) ==
  r.loading

IsRealRow(r) ==
  ~r.loading

RealRows(rows) ==
  SelectSeq(rows, IsRealRow)

PlaceholderRows(rows) ==
  SelectSeq(rows, IsLoadingRow)

CountId(rows, id) ==
  Cardinality({i \in DOMAIN rows : rows[i].id = id})

withLoadingNodes(rows) ==
  GetRowNode(rows, loadingRows[1].id)

\* nothing evaluated yet
NoFn ==
  [op |-> "none"]

\* ------------------------------------------------ observeShortPollingData
\* tap(() => this.gridApi.setRowData([]))
TapClearMissing(rows) ==
  rows

TapClear(rows) ==
  SetRowData(rows, <<>>)

\* switchMap(() => getDataSource()): the previous inner subscription is dropped
MergeMap(subs, f) ==
  subs \cup {f}

\* exhaustMap in place of switchMap: a running inner subscription is kept
SwitchMapKeepOld(subs, f) ==
  IF subs = {} THEN {f} ELSE subs

SwitchMap(subs, f) ==
  {f}

\* untilDestroyed(this), last in the pipe: everything upstream is unsubscribed
UntilDestroyedLeaky(subs) ==
  subs

UntilDestroyed(subs) ==
  {}

\* the consumer of dataEmitSubject replaces the row data by the chunk
ApplyChunk(rows, chunk) ==
  SetRowData(rows, chunk)

\* the pipeline is subscribed: neither unsubscribed by ngOnDestroy nor dead
PipeLive ==
  ~destroyed /\ ~dataErrored

\* an event of the merged stream reaches debounceTime, which restarts its timer
TriggerEventCancelling ==
  /\ fetchCount < MaxFetches
  /\ ~destroyed
  /\ timer' = IF PipeLive THEN DebounceMs ELSE timer
  /\ sinceLast' = 0
  /\ burstPending' = TRUE
  /\ subscribed' = {}
  /\ UNCHANGED <<rowSet, inflight, fetchCount, fetchView, fetchSawRows,
                 published, lastEmit, lastDiscard, failures, dataErrored, destroyed,
                 destroyCalled, lastLoading, emitParity, emitLog,
                 hadPlaceholders, fn>>

TriggerEvent ==
  /\ fetchCount < MaxFetches
  /\ ~destroyed
  /\ timer' = IF PipeLive THEN DebounceMs ELSE timer
  /\ sinceLast' = 0
  /\ burstPending' = TRUE
  /\ UNCHANGED <<rowSet, subscribed, inflight, fetchCount, fetchView, fetchSawRows,
                 published, lastEmit, lastDiscard, failures, dataErrored, destroyed,
                 destroyCalled, lastLoading, emitParity, emitLog,
                 hadPlaceholders, fn>>

\* the filter / sort model after the user changed it
ChangedView(view) ==
  (view + 1) % (MaxView + 1)

\* fromEvent(this.gridApi, Events.EVENT_FILTER_CHANGED)
FilterChanged ==
  /\ ~destroyCalled
  /\ viewState' = ChangedView(viewState)
  /\ TriggerEvent

\* fromEvent(this.gridApi, Events.EVENT_SORT_CHANGED)
SortChanged ==
  /\ ~destroyCalled
  /\ viewState' = ChangedView(viewState)
  /\ TriggerEvent

\* this.dataSourceOptions.additionalTriggerOn$
AdditionalTrigger ==
  /\ viewState' = viewState
  /\ TriggerEvent

\* time passes without the debounce timer coming due
Advance ==
  /\ timer = NoTimer \/ TickMs < timer
  /\ sinceLast < DebounceMs
  /\ timer' = IF timer = NoTimer THEN NoTimer ELSE timer - TickMs
  /\ sinceLast' = Min(sinceLast + TickMs, DebounceMs)
  /\ UNCHANGED <<rowSet, viewState, subscribed, inflight, fetchCount, fetchView,
                 fetchSawRows, published, lastEmit, lastDiscard, failures,
                 dataErrored, destroyed, destroyCalled, lastLoading, emitParity,
                 emitLog, hadPlaceholders, burstPending, fn>>

\* the debounce timer comes due: tap(setRowData([])), then switchMap(getDataSource)
DebounceFire ==
  /\ PipeLive
  /\ timer # NoTimer
  /\ timer <= TickMs
  /\ LET cleared == TapClear(rowSet)
         f == fetchCount + 1
     IN /\ rowSet' = cleared
        /\ fetchSawRows' = cleared
        /\ fetchCount' = f
        /\ fetchView' = viewState
        /\ subscribed' = SwitchMap(subscribed, f)
        /\ inflight' = inflight \cup {f}
  /\ timer' = NoTimer
  /\ sinceLast' = Min(sinceLast + timer, DebounceMs)
  /\ burstPending' = FALSE
  /\ emitLog' = <<>>
  /\ lastEmit' = [lastEmit EXCEPT !.pending = FALSE]
  /\ UNCHANGED <<viewState, published, lastDiscard, failures, dataErrored,
                 destroyed, destroyCalled, lastLoading, emitParity, hadPlaceholders, fn>>

\* the data source answers fetch f with a chunk
FetchComplete ==
  \E f \in inflight, chunk \in Chunks :
    /\ inflight' = inflight \ {f}
    /\ IF f \in subscribed
       THEN /\ published' = Append(published, f)
            /\ lastEmit' = [fetch |-> f, chunk |-> chunk, pending |-> timer # NoTimer]
            /\ hadPlaceholders' = withLoadingNodes(rowSet)
            /\ rowSet' = ApplyChunk(rowSet, chunk)
            /\ subscribed' = subscribed \ {f}
            /\ emitLog' = <<>>
            /\ UNCHANGED lastDiscard
       ELSE /\ lastDiscard' = [fetch |-> f, after |-> published]
            /\ UNCHANGED <<published, lastEmit, hadPlaceholders, rowSet, subscribed,
                           emitLog>>
    /\ UNCHANGED <<viewState, timer, fetchCount, fetchView, fetchSawRows, failures,
                   dataErrored, destroyed, destroyCalled, lastLoading, emitParity,
                   sinceLast, burstPending, fn>>

\* the data source answers fetch f with an error: nothing in the pipe catches it
FetchFail ==
  \E f \in inflight :
    /\ inflight' = inflight \ {f}
    /\ IF f \in subscribed
       THEN /\ failures' = failures \cup {f}
            /\ dataErrored' = TRUE
            /\ subscribed' = {}
            /\ timer' = NoTimer
            /\ UNCHANGED lastDiscard
       ELSE /\ lastDiscard' = [fetch |-> f, after |-> published]
            /\ UNCHANGED <<failures, dataErrored, subscribed, timer>>
    /\ UNCHANGED <<rowSet, viewState, fetchCount, fetchView, fetchSawRows, published,
                   lastEmit, destroyed, destroyCalled, lastLoading, emitParity,
                   emitLog, hadPlaceholders, sinceLast, burstPending, fn>>

\* --------------------------------------------- observeShortPollingLoading
\* the tap of observeShortPollingLoading
ReconcileNoPresenceCheck(rows, isLoading) ==
  IF isLoading
  THEN ApplyTransaction(rows, loadingRows, <<>>)
  ELSE ApplyTransaction(rows, <<>>, loadingRows)

ReconcileRemovesFirstOnly(rows, isLoading) ==
  IF withLoadingNodes(rows) /\ ~isLoading
  THEN ApplyTransaction(rows, <<>>, <<loadingRows[1]>>)
  ELSE IF ~withLoadingNodes(rows) /\ isLoading
       THEN ApplyTransaction(rows, loadingRows, <<>>)
       ELSE rows

ReconcileBySetRowData(rows, isLoading) ==
  IF withLoadingNodes(rows) /\ ~isLoading
  THEN SetRowData(rows, <<>>)
  ELSE IF ~withLoadingNodes(rows) /\ isLoading
       THEN SetRowData(rows, loadingRows)
       ELSE rows

ReconcileInsertOnly(rows, isLoading) ==
  IF ~withLoadingNodes(rows) /\ isLoading
  THEN ApplyTransaction(rows, loadingRows, <<>>)
  ELSE rows

ReconcileAddWhenAbsent(rows, isLoading) ==
  IF withLoadingNodes(rows) /\ ~isLoading
  THEN ApplyTransaction(rows, <<>>, loadingRows)
  ELSE IF ~withLoadingNodes(rows)
       THEN ApplyTransaction(rows, loadingRows, <<>>)
       ELSE rows

Reconcile(rows, isLoading) ==
  IF withLoadingNodes(rows) /\ ~isLoading
  THEN ApplyTransaction(rows, <<>>, loadingRows)
  ELSE IF ~withLoadingNodes(rows) /\ isLoading
       THEN ApplyTransaction(rows, loadingRows, <<>>)
       ELSE rows

\* filter(() => !this.gridApi['destroyCalled'])
LivenessFilterMissing(called) ==
  TRUE

LivenessFilter(called) ==
  ~called

\* loading$ emits isLoading
LoadingEmit ==
  \E isLoading \in BOOLEAN :
    /\ ~destroyed
    /\ rowSet' = IF LivenessFilter(destroyCalled) THEN Reconcile(rowSet, isLoading) ELSE rowSet
    /\ lastLoading' = (IF isLoading THEN "true" ELSE "false")
    /\ emitParity' = 1 - emitParity
    /\ emitLog' = (IF emitLog = <<>> THEN <<isLoading>> ELSE <<emitLog[Len(emitLog)], isLoading>>)
    /\ UNCHANGED <<viewState, timer, subscribed, inflight, fetchCount, fetchView,
                   fetchSawRows, published, lastEmit, lastDiscard, failures,
                   dataErrored, destroyed, destroyCalled, hadPlaceholders, sinceLast,
                   burstPending, fn>>

\* ---------------------------------------------------------------- teardown
\* the component is destroyed: untilDestroyed(this) fires in both pipes
NgOnDestroy ==
  /\ ~destroyed
  /\ destroyed' = TRUE
  /\ subscribed' = UntilDestroyed(subscribed)
  /\ timer' = NoTimer
  /\ UNCHANGED <<rowSet, viewState, inflight, fetchCount, fetchView, fetchSawRows,
                 published, lastEmit, lastDiscard, failures, dataErrored, destroyCalled,
                 lastLoading, emitParity, emitLog, hadPlaceholders, sinceLast,
                 burstPending, fn>>

\* the grid is destroyed: gridApi.destroy() sets destroyCalled
GridDestroy ==
  /\ ~destroyCalled
  /\ destroyCalled' = TRUE
  /\ UNCHANGED <<rowSet, viewState, timer, subscribed, inflight, fetchCount, fetchView,
                 fetchSawRows, published, lastEmit, lastDiscard, failures, dataErrored,
                 destroyed, lastLoading, emitParity, emitLog, hadPlaceholders,
                 sinceLast, burstPending, fn>>

\* ------------------------------------------------------------ specification
NoEmit ==
  [fetch |-> 0, chunk |-> <<>>, pending |-> FALSE]

NoDiscard ==
  [fetch |-> 0, after |-> <<>>]

\* the state once onGridReady has subscribed both pipes
Init ==
  /\ rowSet = <<>>
  /\ viewState = 0
  /\ timer = NoTimer
  /\ subscribed = {}
  /\ inflight = {}
  /\ fetchCount = 0
  /\ fetchView = viewState
  /\ fetchSawRows = <<>>
  /\ published = <<>>
  /\ lastEmit = NoEmit
  /\ lastDiscard = NoDiscard
  /\ failures = {}
  /\ dataErrored = FALSE
  /\ destroyed = FALSE
  /\ destroyCalled = FALSE
  /\ lastLoading = "none"
  /\ emitParity = 0
  /\ emitLog = <<>>
  /\ hadPlaceholders = FALSE
  /\ sinceLast = DebounceMs
  /\ burstPending = FALSE
  /\ fn = NoFn

Next ==
  \/ FilterChanged
  \/ SortChanged
  \/ AdditionalTrigger
  \/ Advance
  \/ DebounceFire
  \/ FetchComplete
  \/ FetchFail
  \/ LoadingEmit
  \/ NgOnDestroy
  \/ GridDestroy

Spec ==
  Init /\ [][Next]_vars

\* time passes, a due debounce timer fires, and the data source answers every
\* request
Fairness ==
  /\ WF_vars(Advance)
  /\ WF_vars(DebounceFire)
  /\ WF_vars(FetchComplete)

SpecLive ==
  Init /\ [][Next]_vars /\ Fairness

\* ------------------------------------------------- updateColumns overrides
\* a string is the sequence of its char codes; a missing value is Undefined
Str(chars) ==
  [kind |-> "string", chars |-> chars]

Undefined ==
  [kind |-> "undefined", chars |-> <<>>]

\* String.fromCharCode(code)
FromCharCode(code) ==
  Str(<<code>>)

\* the root collation localeCompare sorts by: U+0000 is ignorable, then
\* punctuation < symbols (U+2710) < digits < letters
CollationRank(code) ==
  CASE code = 0 -> 0
    [] code = 95 -> 1
    [] code = maxCharCode -> 2
    [] code = 49 -> 3
    [] code = 97 -> 4
    [] code = 98 -> 5
    [] OTHER -> 6

NotIgnorable(code) ==
  CollationRank(code) # 0

RECURSIVE CompareKeys(_, _)
CompareKeys(x, y) ==
  IF x = <<>> /\ y = <<>> THEN 0
  ELSE IF x = <<>> THEN -1
  ELSE IF y = <<>> THEN 1
  ELSE IF CollationRank(Head(x)) < CollationRank(Head(y)) THEN -1
  ELSE IF CollationRank(Head(x)) > CollationRank(Head(y)) THEN 1
  ELSE CompareKeys(Tail(x), Tail(y))

\* String(b): localeCompare turns its argument into a string ("undefined")
CoercedChars(b) ==
  IF b.kind = "undefined"
  THEN <<117, 110, 100, 101, 102, 105, 110, 101, 100>>
  ELSE b.chars

\* a.localeCompare(b), a being a string
LocaleCompare(a, b) ==
  CompareKeys(SelectSeq(a.chars, NotIgnorable), SelectSeq(CoercedChars(b), NotIgnorable))

\* SmartTableSortingOrder, and null for a column that is not sorted
SortOrders ==
  {"asc", "desc", "null"}

\* the sentinel both branches of getValueGetterFn fall back to
Sentinel(columnSort) ==
  IF columnSort = "asc" THEN FromCharCode(maxCharCode) ELSE FromCharCode(0)

\* getValueGetterFn(colDef)(params): real is what colDef.valueGetter returns
ValueGetter(loading, columnSort, real) ==
  IF loading
  THEN Sentinel(columnSort)
  ELSE IF real.kind # "undefined" THEN real ELSE Sentinel(columnSort)

Number(n) ==
  [defined |-> TRUE, threw |-> FALSE, n |-> n]

NoResult ==
  [defined |-> FALSE, threw |-> FALSE, n |-> 0]

\* a.localeCompare on a missing value: TypeError
TypeError ==
  [defined |-> FALSE, threw |-> TRUE, n |-> 0]

\* dummyComparator(a, b, rowA, rowB, isInverted)
dummyComparatorAlwaysCompares(a, b, loadingA, loadingB, isInverted) ==
  IF a.kind = "undefined"
  THEN TypeError
  ELSE IF isInverted
       THEN Number(LocaleCompare(a, b))
       ELSE Number(LocaleCompare(a, b) * (-1) + 0)

dummyComparator(a, b, loadingA, loadingB, isInverted) ==
  IF loadingA \/ loadingB
  THEN IF a.kind = "undefined"
       THEN TypeError
       ELSE IF isInverted
            THEN Number(LocaleCompare(a, b))
            ELSE Number(LocaleCompare(a, b) * (-1) + 0)
  ELSE NoResult

\* the columns updateColumns installs definitions for: the auto-group column
\* and the columns of getAllColumns()
Columns ==
  {"autoGroup", "column"}

\* the valueGetter of the definition installed for `column`: overridden on the
\* auto-group column, the column's own (...colDef) elsewhere; real is what the
\* column's own accessor returns for the row
InstalledValueGetter(column, loading, columnSort, real) ==
  IF column = "autoGroup"
  THEN ValueGetter(loading, columnSort, real)
  ELSE real

\* the comparator of the definition installed for `column`
InstalledComparator(column, a, b, loadingA, loadingB, isInverted) ==
  IF column = "autoGroup"
  THEN dummyComparator(a, b, loadingA, loadingB, isInverted)
  ELSE dummyComparator(a, b, loadingA, loadingB, isInverted)

\* the value the grid hands the comparator for a row of the sorted column
CellValue(row, vals, direction) ==
  ValueGetter(row.loading, direction,
              IF row.loading THEN Undefined ELSE vals[row.id[2]])

\* the grid's row comparison for a column sorted in `direction`: the comparator's
\* result, inverted for "desc"; no result or 0 keeps the rows' current order
GridCompare(rows, i, j, vals, direction) ==
  LET r == dummyComparator(CellValue(rows[i], vals, direction),
                           CellValue(rows[j], vals, direction),
                           rows[i].loading, rows[j].loading, direction = "desc")
      valid == IF r.defined THEN r.n ELSE 0
  IN IF valid # 0
     THEN (IF direction = "desc" THEN -valid ELSE valid)
     ELSE i - j

\* insert index k into the sorted index sequence `sorted`
RECURSIVE InsertSorted(_, _, _, _, _)
InsertSorted(sorted, k, rows, vals, direction) ==
  IF sorted = <<>> THEN <<k>>
  ELSE IF GridCompare(rows, k, Head(sorted), vals, direction) < 0
       THEN <<k>> \o sorted
       ELSE <<Head(sorted)>> \o InsertSorted(Tail(sorted), k, rows, vals, direction)

RECURSIVE SortIndexes(_, _, _, _)
SortIndexes(n, rows, vals, direction) ==
  IF n = 0 THEN <<>>
  ELSE InsertSorted(SortIndexes(n - 1, rows, vals, direction), n, rows, vals, direction)

\* the rows as the grid displays them with the column sorted in `direction`
SortRows(rows, vals, direction) ==
  LET order == SortIndexes(Len(rows), rows, vals, direction)
  IN [k \in 1..Len(rows) |-> rows[order[k]]]

\* a column's own clipboardValueGetter: none, one echoing params.value, one
\* reading the row's data, one returning a fixed text
ClipboardGetters ==
  {"absent", "echo", "data", "fixed"}

DedicatedClipboardGetter(clip, paramsValue, real) ==
  CASE clip = "echo" -> paramsValue
    [] clip = "data" -> real
    [] OTHER -> Str(<<97>>)

\* getClipboardGetterFn(colDef)(params)
ClipboardGetter(clip, loading, isAggregation, paramsValue, real) ==
  IF clip # "absent"
  THEN DedicatedClipboardGetter(clip, paramsValue, real)
  ELSE IF loading \/ isAggregation
       THEN Str(<<>>)
       ELSE real

\* the strings a real row's accessor can return
RECURSIVE StringsUpTo(_)
StringsUpTo(n) ==
  IF n = 0 THEN {<<>>}
  ELSE LET shorter == StringsUpTo(n - 1)
       IN shorter \cup {Append(t, c) : t \in {u \in shorter : Len(u) = n - 1},
                                       c \in {95, 49, 97, 98}}

RealValues ==
  {Str(t) : t \in StringsUpTo(MaxStrLen)} \cup {Undefined}

\* the values the sorted column's real rows carry: at most one character
SortValues ==
  {v \in RealValues : Len(v.chars) <= 1}

\* row data as the pipeline leaves it: a chunk, then the placeholder batch
MixedRowSet(chunk) ==
  Reconcile(ApplyChunk(<<>>, chunk), TRUE)

EvalValueGetter ==
  /\ fn = NoFn
  /\ \E loading \in BOOLEAN, columnSort \in SortOrders, real \in RealValues :
       /\ fn' = [op |-> "valueGetter", loading |-> loading, sort |-> columnSort,
                 real |-> real, out |-> ValueGetter(loading, columnSort, real)]
       /\ UNCHANGED pipeVars

EvalComparator ==
  /\ fn = NoFn
  /\ \E loadingA, loadingB, isInverted \in BOOLEAN, ra, rb \in RealValues :
       LET columnSort == IF isInverted THEN "desc" ELSE "asc"
           a == ValueGetter(loadingA, columnSort, ra)
           b == ValueGetter(loadingB, columnSort, rb)
       IN /\ fn' = [op |-> "comparator", loadingA |-> loadingA, loadingB |-> loadingB,
                    isInverted |-> isInverted, a |-> a, b |-> b,
                    out |-> dummyComparator(a, b, loadingA, loadingB, isInverted)]
          /\ UNCHANGED pipeVars

EvalSort ==
  /\ fn = NoFn
  /\ \E chunk \in Chunks \ {<<>>}, direction \in {"asc", "desc"} :
       \E vals \in [1..Len(chunk) -> SortValues] :
         /\ fn' = [op |-> "sort", direction |-> direction, vals |-> vals,
                   out |-> SortRows(MixedRowSet(chunk), vals, direction)]
         /\ UNCHANGED pipeVars

EvalClipboard ==
  /\ fn = NoFn
  /\ \E clip \in ClipboardGetters, loading, isAggregation \in BOOLEAN,
        columnSort \in SortOrders, real \in RealValues :
       LET paramsValue == ValueGetter(loading, columnSort, real)
       IN /\ fn' = [op |-> "clipboard", clip |-> clip, loading |-> loading,
                    isAggregation |-> isAggregation, value |-> paramsValue,
                    out |-> ClipboardGetter(clip, loading, isAggregation, paramsValue,
                                            IF loading THEN Undefined ELSE real)]
          /\ UNCHANGED pipeVars

\* what a column's own accessor returns for a row: nothing for a loading row,
\* whose data holds only loading, id and hierarchyStructure
OwnValue(loading, real) ==
  IF loading THEN Undefined ELSE real

EvalInstalledValueGetter ==
  /\ fn = NoFn
  /\ \E column \in Columns, loading \in BOOLEAN, columnSort \in SortOrders,
        real \in RealValues :
       /\ fn' = [op |-> "installedValueGetter", column |-> column, loading |-> loading,
                 sort |-> columnSort, real |-> OwnValue(loading, real),
                 out |-> InstalledValueGetter(column, loading, columnSort,
                                              OwnValue(loading, real))]
       /\ UNCHANGED pipeVars

EvalInstalledComparator ==
  /\ fn = NoFn
  /\ \E column \in Columns, loadingA, loadingB, isInverted \in BOOLEAN,
        ra, rb \in RealValues :
       LET columnSort == IF isInverted THEN "desc" ELSE "asc"
           a == InstalledValueGetter(column, loadingA, columnSort, OwnValue(loadingA, ra))
           b == InstalledValueGetter(column, loadingB, columnSort, OwnValue(loadingB, rb))
       IN /\ fn' = [op |-> "installedComparator", column |-> column,
                    loadingA |-> loadingA, loadingB |-> loadingB,
                    isInverted |-> isInverted, a |-> a, b |-> b,
                    out |-> InstalledComparator(column, a, b, loadingA, loadingB,
                                                isInverted)]
          /\ UNCHANGED pipeVars

NextFn ==
  \/ EvalInstalledValueGetter
  \/ EvalInstalledComparator
  \/ EvalValueGetter
  \/ EvalComparator
  \/ EvalSort
  \/ EvalClipboard

\* the column overrides, each evaluated once on every input within the bounds
SpecFn ==
  Init /\ [][NextFn]_vars

\* ------------------------------------------------------------- properties
HasPlaceholder(rows) ==
  \E i \in DOMAIN rows : rows[i].loading

Live ==
  ~destroyed /\ ~destroyCalled

LoadingIds ==
  {<<"loading", i>> : i \in 0..(LoadingRowCount - 1)}

\* C1: every burst of trigger events spaced less than DebounceMs apart issues
\* exactly one getDataSource call, issued once the stream has been silent for
\* DebounceMs after the burst's last event and reading the view as of that event:
\* a call is one call, closes a pending burst at silence DebounceMs with the
\* current view, and no burst on a subscribed component stays unanswered once
\* DebounceMs of silence have passed.
C1_OneFetchPerBurst ==
  [][/\ fetchCount' # fetchCount =>
          /\ fetchCount' = fetchCount + 1
          /\ burstPending /\ ~burstPending'
          /\ sinceLast' = DebounceMs
          /\ fetchView' = viewState'
     /\ (~destroyed' /\ burstPending') => sinceLast' < DebounceMs]_vars

\* C2: of two overlapping fetches only the later started one is published and
\* applied: every chunk pushed into dataEmitSubject belongs to the most recently
\* started fetch, and real rows in the row data are always that fetch's chunk.
C2_LastFetchWins ==
  [][/\ published' # published =>
          /\ published' = Append(published, fetchCount)
          /\ lastEmit'.fetch = fetchCount
     /\ RealRows(rowSet') # <<>> =>
          /\ lastEmit'.fetch = fetchCount'
          /\ RealRows(rowSet') = lastEmit'.chunk]_vars

\* C2 witness: fetch 1 was answered, unheard, after fetch 2 had been published.
C2_Witness ==
  /\ lastDiscard = [fetch |-> 1, after |-> <<2>>]
  /\ published = <<2>>
  /\ rowSet = lastEmit.chunk
  /\ rowSet # <<>>

\* C3: an aggregated trigger (the debounce timer coming due on a subscribed
\* pipeline) clears the row data and then calls getDataSource exactly once in the
\* same step, and getDataSource is never called otherwise: the call always sees
\* row data that has just been emptied.
C3_ClearThenFetch ==
  [][LET aggregated == /\ timer # NoTimer /\ timer' = NoTimer
                       /\ ~destroyed' /\ ~dataErrored'
     IN /\ aggregated <=> fetchCount' # fetchCount
        /\ fetchCount' # fetchCount =>
             /\ fetchCount' = fetchCount + 1
             /\ fetchSawRows' = <<>>
             /\ rowSet' = <<>>
             /\ inflight' = inflight \cup {fetchCount'}]_vars

\* C3 witness: the second trigger emptied row data that held a published chunk.
C3_Witness ==
  /\ fetchCount = 2
  /\ published = <<1>>
  /\ lastEmit.chunk # <<>>
  /\ rowSet = <<>>
  /\ 2 \in inflight

C5_ReconcilerIdempotent ==
  [][emitParity' # emitParity =>
       /\ (emitLog # <<>> /\ lastLoading' = lastLoading) => rowSet' = rowSet
       /\ (~destroyCalled /\ lastLoading' = "true") =>
            \A id \in LoadingIds : CountId(rowSet', id) = 1
       /\ (~destroyCalled /\ lastLoading' = "false") =>
            \A id \in LoadingIds : CountId(rowSet', id) = 0]_vars

\* C5 witness: two true emissions in a row, the batch present once.
C5_Witness ==
  /\ emitLog = <<TRUE, TRUE>>
  /\ ~destroyCalled
  /\ Len(PlaceholderRows(rowSet)) = LoadingRowCount
  /\ RealRows(rowSet) # <<>>

C7_RecoversAfterFailure ==
  (failures # {} /\ ~destroyed) =>
     /\ burstPending => sinceLast < DebounceMs
     /\ RealRows(rowSet) # <<>> => \A f \in failures : lastEmit.fetch > f

\* C8 as stated: on a live instance placeholders are present iff the latest
\* loading$ emission was true.
C8_NeverDrift ==
  (Live /\ lastLoading # "none") =>
     (HasPlaceholder(rowSet) <=> lastLoading = "true")

\* C8 amended: right after the reconciler has handled a loading$ emission on a
\* grid that is not destroyed, placeholders are present iff the value was true.
C8_AgreeAfterEmission ==
  [][(emitParity' # emitParity /\ ~destroyCalled) =>
       (HasPlaceholder(rowSet') <=> lastLoading' = "true")]_vars

\* C8 witness: a live instance that fetched, with placeholders in place after a
\* true emission.
C8_Witness ==
  /\ Live
  /\ fetchCount > 0
  /\ emitLog # <<>>
  /\ lastLoading = "true"
  /\ HasPlaceholder(rowSet)

\* the loading rows of a displayed row sequence all come after every real row
LoadingRowsLast(rows) ==
  \A i, j \in DOMAIN rows : (rows[i].loading /\ ~rows[j].loading) => j < i

\* C9: sorting real rows mixed with the placeholder batch on a column carrying
\* the overridden accessor and comparator puts every loading row after every
\* real row, ascending and descending, whatever the real rows' values.
C9_LoadingRowsSortLast ==
  fn.op = "sort" => LoadingRowsLast(fn.out)

\* C10: the clipboard override exports a loading row's cell as the empty value,
\* also for a column that declares its own clipboardValueGetter.
C10_LoadingExportsEmpty ==
  (fn.op = "clipboard" /\ fn.loading) => fn.out = Str(<<>>)

\* C11: once gridApi['destroyCalled'] is set, no loading$ emission, true or
\* false, changes the row data: the filter drops it before the presence test.
C11_InertAfterGridDestroy ==
  [][(emitParity' # emitParity /\ destroyCalled) => rowSet' = rowSet]_vars

\* C11 witness: a true emission arrived on a destroyed grid whose row data held
\* no placeholders, and none was inserted.
C11_Witness ==
  /\ destroyCalled
  /\ ~destroyed
  /\ emitLog # <<>>
  /\ emitLog[Len(emitLog)] = TRUE
  /\ ~HasPlaceholder(rowSet)

\* the placeholder ids that are in the row data
PresentLoadingIds(rows) ==
  {id \in LoadingIds : GetRowNode(rows, id)}

\* C12: the row data holds all LoadingRowCount placeholder rows or none of them,
\* so the presence of loading0 tells the presence of every placeholder row.
C12_AllOrNone ==
  /\ PresentLoadingIds(rowSet) \in {{}, LoadingIds}
  /\ withLoadingNodes(rowSet) <=> HasPlaceholder(rowSet)
  /\ Len(PlaceholderRows(rowSet)) \in {0, LoadingRowCount}

\* C12 witness: the whole batch is in the row data of an instance that fetched.
C12_Witness ==
  /\ PresentLoadingIds(rowSet) = LoadingIds
  /\ fetchCount >= 1
  /\ published # <<>>

\* C13: on a live instance, placeholders in the row data imply that the latest
\* loading$ emission was true.
C13_PlaceholdersOnlyWhileLoading ==
  (Live /\ HasPlaceholder(rowSet)) => lastLoading = "true"

\* C13 witness: a live instance that saw a false emission and then a true one,
\* with placeholders next to real rows.
C13_Witness ==
  /\ Live
  /\ HasPlaceholder(rowSet)
  /\ RealRows(rowSet) # <<>>
  /\ emitLog = <<FALSE, TRUE>>

\* C14: at most one fetch is subscribed (able to publish) at any time.
C14_AtMostOneSubscribed ==
  Cardinality(subscribed) <= 1

\* C14 witness: fetch 2 is subscribed while the superseded fetch 1 is still
\* unanswered.
C14_Witness ==
  /\ subscribed = {2}
  /\ inflight = {1, 2}

\* C17: a reconciler step leaves the real rows as they were, in the same order:
\* it either changes nothing, or appends exactly the placeholder batch, or takes
\* exactly that batch out.
C17_ReconcilerKeepsRealRows ==
  [][emitParity' # emitParity =>
       /\ RealRows(rowSet') = RealRows(rowSet)
       /\ \/ rowSet' = rowSet
          \/ /\ ~HasPlaceholder(rowSet)
             /\ rowSet' = rowSet \o loadingRows
          \/ /\ PlaceholderRows(rowSet) = loadingRows
             /\ rowSet' = RealRows(rowSet)]_vars

\* C17 witness: the batch was inserted behind a chunk of MaxRows real rows.
C17_Witness ==
  /\ emitLog = <<TRUE>>
  /\ ~destroyCalled
  /\ Len(RealRows(rowSet)) = MaxRows
  /\ rowSet = lastEmit.chunk \o loadingRows

\* C18: no two rows of the row data share an identifier.
C18_UniqueIds ==
  \A i, j \in DOMAIN rowSet : i # j => rowSet[i].id # rowSet[j].id

\* C18 witness: real rows and the placeholder batch together, after a repeated
\* true emission.
C18_Witness ==
  /\ Len(rowSet) = MaxRows + LoadingRowCount
  /\ emitLog = <<TRUE, TRUE>>
  /\ fetchCount = MaxFetches

\* C15: for every column, the auto-group column and the others alike, the
\* installed value accessor returns the sentinel for a loading row (char code
\* maxCharCode when the column is sorted ascending, char code 0 otherwise), and
\* for a real row the own accessor's value, or that sentinel when there is none.
C15_SentinelOnEveryColumn ==
  fn.op = "installedValueGetter" =>
    fn.out = IF fn.loading \/ fn.real.kind = "undefined"
             THEN (IF fn.sort = "asc" THEN Str(<<maxCharCode>>) ELSE Str(<<0>>))
             ELSE fn.real

\* C16: the comparator installed on every column and on the auto-group column
\* gives no result (undefined, not a number, no error) for two rows neither of
\* which is a loading row, whatever the direction.
C16_NoOpinionOnRealRows ==
  (fn.op = "installedComparator" /\ ~fn.loadingA /\ ~fn.loadingB) =>
    (~fn.out.defined /\ ~fn.out.threw)

\* C16 witness: two real rows with different values compared on a column other
\* than the auto-group one, descending, without a result.
C16_Witness ==
  /\ fn.op = "installedComparator"
  /\ fn.column = "column"
  /\ ~fn.loadingA /\ ~fn.loadingB
  /\ fn.isInverted
  /\ fn.a.kind = "string" /\ fn.b.kind = "string"
  /\ fn.a # fn.b
  /\ ~fn.out.defined

\* a step in which a filter-changed, sort-changed or additional-trigger event
\* arrives
TriggerStep ==
  sinceLast' = 0 /\ (sinceLast # 0 \/ viewState' # viewState)

\* C20: a trigger event by itself cancels nothing: it leaves the subscribed
\* fetch, the requests in flight and the rows as they are.  While the debounce
\* timer is pending, a subscribed fetch that is answered with a chunk is still
\* published, and a subscribed fetch is given up without publication only in
\* the step in which the timer fires, clears the rows and starts the next fetch.
C20_SupersededOnlyAtFire ==
  [][/\ TriggerStep =>
          (subscribed' = subscribed /\ inflight' = inflight /\ rowSet' = rowSet
           /\ published' = published)
     /\ \A f \in subscribed :
          /\ (timer # NoTimer /\ f \in inflight /\ f \notin inflight'
              /\ ~dataErrored') =>
                 (published' = Append(published, f) /\ lastEmit'.fetch = f
                  /\ timer' = timer)
          /\ (f \notin subscribed' /\ published' = published /\ ~destroyed'
              /\ ~dataErrored') =>
                 (fetchCount' = fetchCount + 1 /\ timer # NoTimer
                  /\ timer' = NoTimer /\ rowSet' = <<>>)]_vars

\* C20 witness: the current fetch was answered and published while the debounce
\* timer of a later trigger event was pending; the timer is still pending and
\* the published rows are still shown.
C20_Witness ==
  /\ lastEmit.pending
  /\ timer # NoTimer
  /\ sinceLast > 0
  /\ fetchCount >= 1
  /\ lastEmit.fetch = fetchCount
  /\ published # <<>> /\ published[Len(published)] = fetchCount
  /\ lastEmit.chunk # <<>>
  /\ rowSet = lastEmit.chunk

\* C19: if trigger events eventually stop, the instance is never torn down
\* and no subscribed fetch is answered with an error, then eventually and for
\* good the debounce timer is idle, no fetch is subscribed or in flight, and
\* the last publication is that of the latest fetch started.
C19_EventuallyPublishedAndIdle ==
  (<>[][~TriggerStep]_vars /\ []~destroyed /\ []~dataErrored) =>
    <>[](/\ timer = NoTimer
         /\ subscribed = {}
         /\ inflight = {}
         /\ ((burstPending \/ fetchCount > 0) =>
               (~burstPending /\ published # <<>>
                /\ published[Len(published)] = fetchCount
                /\ lastEmit.fetch = fetchCount)))

\* C19 witness: after several trigger bursts the latest fetch has been
\* published, nothing is pending or in flight and the instance is alive.
C19_Witness ==
  /\ ~destroyed /\ ~dataErrored
  /\ fetchCount >= 2
  /\ timer = NoTimer /\ ~burstPending
  /\ subscribed = {} /\ inflight = {}
  /\ published # <<>> /\ published[Len(published)] = fetchCount
  /\ lastDiscard.fetch > 0

====
